---- MODULE Spec2Model ----
(***************************************************************************)
(* Model of the exchange-rate core of u2c-exchange-bot:                    *)
(*   src/bot/rates/providers.py  (fetch_cbr, fetch_nbu, fetch_binance)     *)
(*   src/bot/rates/service.py    (RateService: cache, graph, BFS resolver) *)
(*   src/bot/main.py, states.py, keyboards.py, repository.py               *)
(*                               (the conversation: handlers, FSM, orders) *)
(* Rates are exact rationals <<numerator, denominator>> in lowest terms.   *)
(* An optional value (Python None / a value) is <<>> / <<v>>.              *)
(***************************************************************************)
EXTENDS Integers, Sequences, FiniteSets, TLC

(* ---------------------------- bounds ----------------------------------- *)
\* last instant of the modelled clock
MaxTime == 1
\* number of get_rate calls started in one behaviour
MaxCalls == 2
\* number of orders the show_rate handlers of one behaviour insert
MaxOrders == 2
\* number of bot messages that carry a keyboard at one time
MaxKeyboards == 2

(* ------------------------- configuration ------------------------------- *)
\* RateService(ttl_seconds=...): the configured freshness window, scaled to
\* clock units
ttl_seconds == 1

\* the callers that may have a get_rate call in flight on the shared service
Procs == {1, 2}

\* keyboards.CURRENCIES: the supported currencies
CURRENCIES == <<"USD", "EUR", "UAH", "RUB", "USDT">>

Supported == {CURRENCIES[i] : i \in 1..Len(CURRENCIES)}

\* codes a caller may pass: the supported ones and one that no provider quotes
AllCodes == CURRENCIES \o <<"GBP">>

Codes == {AllCodes[i] : i \in 1..Len(AllCodes)}

\* the pairs of codes concurrent callers of one run ask about, in either
\* direction: the identity on a supported and on an unquoted code, a pair
\* without a route, a pair two hops apart, the derived edge and a direct edge
AskedPairs ==
    { <<"USD", "USD">>, <<"GBP", "GBP">>, <<"USD", "GBP">>, <<"USD", "EUR">>,
      <<"UAH", "RUB">>, <<"USD", "UAH">> }

\* the spellings of a code a caller may pass: as listed, or in lower case
Lower(c) ==
    CASE c = "USD"  -> "usd"
      [] c = "EUR"  -> "eur"
      [] c = "UAH"  -> "uah"
      [] c = "RUB"  -> "rub"
      [] c = "USDT" -> "usdt"
      [] c = "GBP"  -> "gbp"

SpellingsOf(c) == {c, Lower(c)}

Spellings == UNION {SpellingsOf(c) : c \in Codes}

\* every pair of codes, in either direction
AllPairs == {<<AllCodes[i], AllCodes[j]>> : i, j \in 1..Len(AllCodes)}

(* --------------------------- rationals --------------------------------- *)
RECURSIVE GCD(_, _)
GCD(a, b) == IF b = 0 THEN a ELSE GCD(b, a % b)

\* the fraction n/d in lowest terms with a positive denominator
Rat(n, d) ==
    LET s == IF d < 0 THEN -1 ELSE 1
        g == GCD(IF n * s < 0 THEN -(n * s) ELSE n * s, d * s)
    IN  <<(n * s) \div g, (d * s) \div g>>

One == <<1, 1>>

Mul(x, y) == Rat(x[1] * y[1], x[2] * y[2])

\* a division that forgets to invert the divisor
Div_as_mul(x, y) == Rat(x[1] * y[1], x[2] * y[2])

Div(x, y) == Rat(x[1] * y[2], x[2] * y[1])

(* ------------------------ binary floating point ------------------------ *)
\* The rates of the program are Python floats: binary floating point, every
\* operation rounded to the nearest representable value, ties to even.  The
\* significand is kept to SignificandBits bits here (53 in the program).
SignificandBits == 8

RECURSIVE Pow2(_)
Pow2(k) == IF k = 0 THEN 1 ELSE 2 * Pow2(k - 1)

\* n/d rounded to the nearest integer, ties to the even one (n >= 0, d > 0)
RoundHalfEven(n, d) ==
    LET q == n \div d
        r == n % d
    IN  IF 2 * r > d \/ (2 * r = d /\ q % 2 = 1) THEN q + 1 ELSE q

\* the exponents of two by which a value is scaled to reach the significand
MaxShift == 24

\* the fraction n * 2^j / d, reduced before it is multiplied out
ScaleUp(n, d, j) ==
    LET g == GCD(Pow2(j), d)
    IN  <<n * (Pow2(j) \div g), d \div g>>

\* float(x): the representable value nearest to the positive fraction x; the
\* value is scaled by 2^k so that its integer part has SignificandBits bits,
\* rounded there, and scaled back
Float(x) ==
    LET n == x[1]
        d == x[2]
    IN  IF n <= 0 THEN x
        ELSE IF n \div d >= Pow2(SignificandBits)
        THEN LET k == CHOOSE j \in 1..MaxShift :
                          /\ n \div (d * Pow2(j - 1)) >= Pow2(SignificandBits)
                          /\ n \div (d * Pow2(j)) < Pow2(SignificandBits)
             IN  Rat(RoundHalfEven(n, d * Pow2(k)) * Pow2(k), 1)
        ELSE IF n \div d < Pow2(SignificandBits - 1)
        THEN LET k == CHOOSE j \in 1..MaxShift :
                          /\ ScaleUp(n, d, j - 1)[1] \div ScaleUp(n, d, j - 1)[2]
                                < Pow2(SignificandBits - 1)
                          /\ ScaleUp(n, d, j)[1] \div ScaleUp(n, d, j)[2]
                                >= Pow2(SignificandBits - 1)
                 up == ScaleUp(n, d, k)
             IN  Rat(RoundHalfEven(up[1], up[2]), Pow2(k))
        ELSE <<RoundHalfEven(n, d), 1>>

\* x * y and x / y on floats
FloatMul(x, y) == Float(Mul(x, y))

FloatDiv(x, y) == Float(Div(x, y))

(* ------------------------ provider payloads ---------------------------- *)
\* What the three upstream feeds quote.  Market 1 is the scenario of the
\* specification; market 2 is the quotation the feeds publish after instant 0.
Market(t) == IF t = 0 THEN 1 ELSE 2

CbrFeed(m) ==
    IF m = 1 THEN [eur_rub |-> Rat(100, 1), usd_rub |-> Rat(90, 1)]
             ELSE [eur_rub |-> Rat(120, 1), usd_rub |-> Rat(100, 1)]

NbuFeed(m) ==
    IF m = 1 THEN [eur_uah |-> Rat(45, 1), usd_uah |-> Rat(40, 1)]
             ELSE [eur_uah |-> Rat(50, 1), usd_uah |-> Rat(42, 1)]

BinanceFeed(m) ==
    IF m = 1 THEN [EURUSDT |-> Rat(11, 10), USDTUAH |-> Rat(41, 1), USDTUSD |-> Rat(1, 1)]
             ELSE [EURUSDT |-> Rat(6, 5), USDTUAH |-> Rat(43, 1), USDTUSD |-> Rat(1, 1)]

\* What an upstream document may carry for the euro where a rate is read:
\* the Valute element of the CBR, the rate of the NBU item, the price of the
\* Binance ticker.  The first of each is the quotation of market 1.
CbrValutes ==
    {[Nominal |-> 1, Value |-> Rat(100, 1)], [Nominal |-> 10, Value |-> Rat(0, 1)],
     [Nominal |-> 1, Value |-> Rat(-100, 1)]}

NbuItems == {Rat(45, 1), Rat(0, 1), Rat(-45, 1)}

BinancePrices == {Rat(11, 10), Rat(0, 1)}

\* fetch_cbr.get_rate: float(Value) / float(Nominal) of the matching Valute
cbr_get_rate(valute) == Div(valute.Value, Rat(valute.Nominal, 1))

\* fetch_nbu.find: float(item.get("rate")) of the matching item
nbu_find(item) == Rat(item[1], item[2])

\* fetch_binance.price: float(payload["price"])
binance_price(price) == Rat(price[1], price[2])

\* the snapshot dataclasses of providers.py
CbrRates(eur_rub, usd_rub, as_of) ==
    [eur_rub |-> eur_rub, usd_rub |-> usd_rub, as_of |-> as_of]

NbuRates(eur_uah, usd_uah, as_of) ==
    [eur_uah |-> eur_uah, usd_uah |-> usd_uah, as_of |-> as_of]

BinanceRates(eur_usdt, usdt_uah, usdt_usd, as_of) ==
    [eur_usdt |-> eur_usdt, usdt_uah |-> usdt_uah, usdt_usd |-> usdt_usd, as_of |-> as_of]

(* --------------------------- graph builder ----------------------------- *)
\* an add_edge that puts the new edge first: g.setdefault(a, []).insert(0, ...)
add_edge_prepend(g, a, b, r, src) ==
    IF a \in DOMAIN g
    THEN [g EXCEPT ![a] = << <<b, r, src>> >> \o @]
    ELSE (a :> << <<b, r, src>> >>) @@ g

\* an add_edge that only sets the default: g.setdefault(a, [(b, r, src)])
add_edge_default_only(g, a, b, r, src) ==
    IF a \in DOMAIN g
    THEN g
    ELSE (a :> << <<b, r, src>> >>) @@ g

\* g.setdefault(a, []).append((b, r, src))
add_edge(g, a, b, r, src) ==
    IF a \in DOMAIN g
    THEN [g EXCEPT ![a] = Append(@, <<b, r, src>>)]
    ELSE (a :> << <<b, r, src>> >>) @@ g

\* uah_rub = cbr.eur_rub / nbu.eur_uah  (RUB per 1 UAH)
uah_rub_inverted(cbr, nbu) == Div(nbu.eur_uah, cbr.eur_rub)

uah_rub(cbr, nbu) == Div(cbr.eur_rub, nbu.eur_uah)

\* a builder that derives the RUB->UAH edge from the USD quotations instead
\* of inverting uah_rub
_build_graph_usd_bridge(cbr, nbu, bnc) ==
    LET g0  == <<>>
        g1  == add_edge(g0, "EUR", "RUB", cbr.eur_rub, "CBR")
        g2  == add_edge(g1, "RUB", "EUR", Div(One, cbr.eur_rub), "CBR")
        g3  == add_edge(g2, "USD", "RUB", cbr.usd_rub, "CBR")
        g4  == add_edge(g3, "RUB", "USD", Div(One, cbr.usd_rub), "CBR")
        g5  == add_edge(g4, "EUR", "UAH", nbu.eur_uah, "NBU")
        g6  == add_edge(g5, "UAH", "EUR", Div(One, nbu.eur_uah), "NBU")
        g7  == add_edge(g6, "USD", "UAH", nbu.usd_uah, "NBU")
        g8  == add_edge(g7, "UAH", "USD", Div(One, nbu.usd_uah), "NBU")
        g9  == add_edge(g8, "UAH", "RUB", uah_rub(cbr, nbu), "CBR+NBU")
        g10 == add_edge(g9, "RUB", "UAH", Div(nbu.usd_uah, cbr.usd_rub), "CBR+NBU")
        g11 == add_edge(g10, "EUR", "USDT", bnc.eur_usdt, "Binance")
        g12 == add_edge(g11, "USDT", "EUR", Div(One, bnc.eur_usdt), "Binance")
        g13 == add_edge(g12, "USDT", "UAH", bnc.usdt_uah, "Binance")
        g14 == add_edge(g13, "UAH", "USDT", Div(One, bnc.usdt_uah), "Binance")
        g15 == add_edge(g14, "USDT", "USD", bnc.usdt_usd, "Binance")
        g16 == add_edge(g15, "USD", "USDT", Div(One, bnc.usdt_usd), "Binance")
    IN  g16

\* RateService._build_graph: every edge is inserted in the order of the code
_build_graph(cbr, nbu, bnc) ==
    LET g0  == <<>>
        g1  == add_edge(g0, "EUR", "RUB", cbr.eur_rub, "CBR")
        g2  == add_edge(g1, "RUB", "EUR", Div(One, cbr.eur_rub), "CBR")
        g3  == add_edge(g2, "USD", "RUB", cbr.usd_rub, "CBR")
        g4  == add_edge(g3, "RUB", "USD", Div(One, cbr.usd_rub), "CBR")
        g5  == add_edge(g4, "EUR", "UAH", nbu.eur_uah, "NBU")
        g6  == add_edge(g5, "UAH", "EUR", Div(One, nbu.eur_uah), "NBU")
        g7  == add_edge(g6, "USD", "UAH", nbu.usd_uah, "NBU")
        g8  == add_edge(g7, "UAH", "USD", Div(One, nbu.usd_uah), "NBU")
        g9  == add_edge(g8, "UAH", "RUB", uah_rub(cbr, nbu), "CBR+NBU")
        g10 == add_edge(g9, "RUB", "UAH", Div(One, uah_rub(cbr, nbu)), "CBR+NBU")
        g11 == add_edge(g10, "EUR", "USDT", bnc.eur_usdt, "Binance")
        g12 == add_edge(g11, "USDT", "EUR", Div(One, bnc.eur_usdt), "Binance")
        g13 == add_edge(g12, "USDT", "UAH", bnc.usdt_uah, "Binance")
        g14 == add_edge(g13, "UAH", "USDT", Div(One, bnc.usdt_uah), "Binance")
        g15 == add_edge(g14, "USDT", "USD", bnc.usdt_usd, "Binance")
        g16 == add_edge(g15, "USD", "USDT", Div(One, bnc.usdt_usd), "Binance")
    IN  g16

\* RateService._build_graph as the program computes it: the quotations are
\* floats and every `1.0 / x` and `a / b` is a rounded division
_build_graph_float(cbr, nbu, bnc) ==
    LET er  == Float(cbr.eur_rub)
        ur  == Float(cbr.usd_rub)
        eu  == Float(nbu.eur_uah)
        uu  == Float(nbu.usd_uah)
        et  == Float(bnc.eur_usdt)
        tu  == Float(bnc.usdt_uah)
        td  == Float(bnc.usdt_usd)
        hr  == FloatDiv(er, eu)
        g0  == <<>>
        g1  == add_edge(g0, "EUR", "RUB", er, "CBR")
        g2  == add_edge(g1, "RUB", "EUR", FloatDiv(One, er), "CBR")
        g3  == add_edge(g2, "USD", "RUB", ur, "CBR")
        g4  == add_edge(g3, "RUB", "USD", FloatDiv(One, ur), "CBR")
        g5  == add_edge(g4, "EUR", "UAH", eu, "NBU")
        g6  == add_edge(g5, "UAH", "EUR", FloatDiv(One, eu), "NBU")
        g7  == add_edge(g6, "USD", "UAH", uu, "NBU")
        g8  == add_edge(g7, "UAH", "USD", FloatDiv(One, uu), "NBU")
        g9  == add_edge(g8, "UAH", "RUB", hr, "CBR+NBU")
        g10 == add_edge(g9, "RUB", "UAH", FloatDiv(One, hr), "CBR+NBU")
        g11 == add_edge(g10, "EUR", "USDT", et, "Binance")
        g12 == add_edge(g11, "USDT", "EUR", FloatDiv(One, et), "Binance")
        g13 == add_edge(g12, "USDT", "UAH", tu, "Binance")
        g14 == add_edge(g13, "UAH", "USDT", FloatDiv(One, tu), "Binance")
        g15 == add_edge(g14, "USDT", "USD", td, "Binance")
        g16 == add_edge(g15, "USD", "USDT", FloatDiv(One, td), "Binance")
    IN  g16

\* graph.get(cur, [])
\* the edges of a code handed out newest first
graph_get_newest_first(graph, cur) ==
    IF cur \in DOMAIN graph
    THEN [i \in 1..Len(graph[cur]) |-> graph[cur][Len(graph[cur]) + 1 - i]]
    ELSE <<>>

graph_get(graph, cur) == IF cur \in DOMAIN graph THEN graph[cur] ELSE <<>>

(* --------------------------- path resolver ----------------------------- *)
\* The state of the search is [q, prev, visited].
\* The body of `for nxt, r, src in graph.get(cur, [])`, from edge i on.
RECURSIVE ScanEdges(_, _, _, _, _)
ScanEdges(edges, i, cur, to, st) ==
    IF i > Len(edges) THEN st
    ELSE LET nxt == edges[i][1]
             r   == edges[i][2]
             src == edges[i][3]
         IN  IF nxt \in st.visited
             THEN ScanEdges(edges, i + 1, cur, to, st)
             ELSE LET seen == [st EXCEPT !.visited = @ \cup {nxt},
                                         !.prev = (nxt :> <<cur, r, src>>) @@ @]
                  IN  IF nxt = to
                      THEN [seen EXCEPT !.q = <<>>]
                      ELSE ScanEdges(edges, i + 1, cur, to,
                                     [seen EXCEPT !.q = Append(@, nxt)])

\* a depth-first search: the newest discovery is expanded first, one edge at
\* a time (q used as a stack)
RECURSIVE DfsLoop(_, _, _)
DfsLoop(graph, to, st) ==
    IF st.q = <<>> THEN st.prev
    ELSE LET cur   == Head(st.q)
             edges == graph_get(graph, cur)
             fresh == {i \in 1..Len(edges) : edges[i][1] \notin st.visited}
         IN  IF fresh = {} THEN DfsLoop(graph, to, [st EXCEPT !.q = Tail(@)])
             ELSE LET i   == CHOOSE j \in fresh : \A k \in fresh : j <= k
                      nxt == edges[i][1]
                      seen == [st EXCEPT !.visited = @ \cup {nxt},
                                   !.prev = (nxt :> <<cur, edges[i][2], edges[i][3]>>) @@ @]
                  IN  IF nxt = to THEN seen.prev
                      ELSE DfsLoop(graph, to, [seen EXCEPT !.q = <<nxt>> \o @])

\* `while q: cur = q.popleft(); for ...`; yields the final prev map
RECURSIVE BfsLoop(_, _, _)
BfsLoop(graph, to, st) ==
    IF st.q = <<>> THEN st.prev
    ELSE LET cur == Head(st.q)
         IN  BfsLoop(graph, to,
                     ScanEdges(graph_get(graph, cur), 1, cur, to,
                               [st EXCEPT !.q = Tail(@)]))

\* path_edges left in the order of the backward walk
Reverse_omitted(s) == s

\* path_edges.reverse()
Reverse(s) == [i \in 1..Len(s) |-> s[Len(s) + 1 - i]]

\* a backward walk that assigns the factor of the hop (rate = r) instead of
\* multiplying by it
RECURSIVE Reconstruct_assigns(_, _, _, _, _)
Reconstruct_assigns(prev, frm, cur, path_edges, rate) ==
    IF cur = frm THEN [rate |-> rate, path |-> Reverse(path_edges)]
    ELSE LET p   == prev[cur][1]
             r   == prev[cur][2]
             src == prev[cur][3]
         IN  Reconstruct_assigns(prev, frm, p, Append(path_edges, <<p, cur, src>>), r)

\* `while cur != frm: p, r, src = prev[cur]; ...`, then path_edges.reverse()
RECURSIVE Reconstruct(_, _, _, _, _)
Reconstruct(prev, frm, cur, path_edges, rate) ==
    IF cur = frm THEN [rate |-> rate, path |-> Reverse(path_edges)]
    ELSE LET p   == prev[cur][1]
             r   == prev[cur][2]
             src == prev[cur][3]
         IN  Reconstruct(prev, frm, p, Append(path_edges, <<p, cur, src>>), Mul(rate, r))

\* the backward walk on floats: `rate *= r` is a rounded multiplication
RECURSIVE Reconstruct_float(_, _, _, _, _)
Reconstruct_float(prev, frm, cur, path_edges, rate) ==
    IF cur = frm THEN [rate |-> rate, path |-> Reverse(path_edges)]
    ELSE LET p   == prev[cur][1]
             r   == prev[cur][2]
             src == prev[cur][3]
         IN  Reconstruct_float(prev, frm, p, Append(path_edges, <<p, cur, src>>),
                               FloatMul(rate, r))

\* RuntimeError(f"No conversion path from {frm} to {to}")
NoPathError(frm, to) == <<"No conversion path", frm, to>>

\* self._last_sources_as_of or now
as_of_or_now(last, now) == IF last = <<>> THEN now ELSE last[1]

\* a resolver without the `if to not in prev: raise`: it answers 1.0
_find_rate_fabricate(graph, frm, to, now, last) ==
    LET prev == IF frm = to THEN <<>>
                ELSE BfsLoop(graph, to, [q |-> <<frm>>, prev |-> <<>>, visited |-> {frm}])
    IN  IF frm = to \/ to \notin DOMAIN prev
        THEN [ok |-> TRUE, rate |-> One, path |-> <<>>, as_of |-> as_of_or_now(last, now)]
        ELSE LET w == Reconstruct(prev, frm, to, <<>>, One)
             IN  [ok |-> TRUE, rate |-> w.rate, path |-> w.path,
                  as_of |-> as_of_or_now(last, now)]

\* RateService._find_rate; last is the value of self._last_sources_as_of
_find_rate(graph, frm, to, now, last) ==
    IF frm = to
    THEN [ok |-> TRUE, rate |-> One, path |-> <<>>, as_of |-> as_of_or_now(last, now)]
    ELSE LET prev == BfsLoop(graph, to, [q |-> <<frm>>, prev |-> <<>>, visited |-> {frm}])
         IN  IF to \notin DOMAIN prev
             THEN [ok |-> FALSE, error |-> NoPathError(frm, to)]
             ELSE LET w == Reconstruct(prev, frm, to, <<>>, One)
                  IN  [ok |-> TRUE, rate |-> w.rate, path |-> w.path,
                       as_of |-> as_of_or_now(last, now)]

\* RateService._find_rate on a graph of floats (frm # to, a path exists)
_find_rate_float(graph, frm, to) ==
    LET prev == BfsLoop(graph, to, [q |-> <<frm>>, prev |-> <<>>, visited |-> {frm}])
    IN  Reconstruct_float(prev, frm, to, <<>>, One).rate

(* ------------------------------ state ---------------------------------- *)
VARIABLES
    asked,                 \* the two codes the callers of this run ask about
    clock,                 \* the latest reading of datetime.now(timezone.utc)
    _cache,                \* RateService._cache: key -> <<expiry, RateResult>>
    _last_sources_as_of,   \* RateService._last_sources_as_of
    frames,                \* per caller, the frame of its get_rate coroutine
    cache_origin,          \* history: per stored key, the storing call's
                           \*          arguments, rates, requests and returned
                           \*          result, and how often the key has been stored
    ncalls,                \* history: calls started so far
    fsm_state,             \* MemoryStorage: the FSM state of the user's chat
    fsm_data,              \* MemoryStorage: the conversation data (a dict)
    orders,                \* the orders table, order.id = position
    users,                 \* the users table: the ids upsert_user has stored
    admin_chat,            \* the notifications delivered to config.admin_id
    screen,                \* per inline keyboard, the bot messages in the chat
                           \*   that carry it at the moment
    handlers,              \* the show_rate and submit coroutines in flight
    hist                   \* history: what the conversation has passed since
                           \*   its data was last cleared or changed, and the
                           \*   orders created and the get_rate failures seen
                           \*   since waiting_for_calc was entered

\* the rate service and the conversation
service == <<asked, clock, _cache, _last_sources_as_of, frames, cache_origin, ncalls>>

flow == <<fsm_state, fsm_data, orders, users, admin_chat, screen, handlers, hist>>

vars == <<asked, clock, _cache, _last_sources_as_of, frames, cache_origin, ncalls,
          fsm_state, fsm_data, orders, users, admin_chat, screen, handlers, hist>>

\* The frame of a get_rate coroutine: where it stands (pc), the arguments as
\* the caller spelled them (args), its locals (frm, to, now, cbr, nbu, bnc),
\* what it returned or raised, and history:
\* the provider requests it issued, what the call found in the cache
\* (at_start) and the provider rates behind its result (origin).
NoFrame ==
    [pc |-> "idle", args |-> <<>>, frm |-> "", to |-> "", now |-> 0, cbr |-> <<>>, nbu |-> <<>>,
     bnc |-> <<>>, result |-> <<>>, error |-> <<>>,
     requests |-> <<>>, at_start |-> <<>>, origin |-> <<>>]

\* a call that returned or raised stays visible for one step; then the caller
\* has consumed the outcome and the frame is gone
Settled(fs) ==
    [q \in Procs |-> IF fs[q].pc \in {"done", "raised"} THEN NoFrame ELSE fs[q]]

\* a normalisation that leaves the code as the caller spelled it
Upper_as_typed(s) == s

\* str.upper() on the codes a caller may pass
Upper(s) ==
    CASE s = "usd"  -> "USD"
      [] s = "eur"  -> "EUR"
      [] s = "uah"  -> "UAH"
      [] s = "rub"  -> "RUB"
      [] s = "usdt" -> "USDT"
      [] s = "gbp"  -> "GBP"
      [] OTHER      -> s

\* a key that leaves out the destination code
Key_source_only(f, t) == f \o "->"

\* key = f"{frm}->{to}"
Key(f, t) == f \o "->" \o t

RateResult(rate, path, as_of) == [rate |-> rate, path |-> path, as_of |-> as_of]

\* a lookup that serves an entry up to and including its expiry instant
cache_hit_inclusive(cache, key, t) == key \in DOMAIN cache /\ cache[key][1] >= t

\* a lookup with the comparison turned round
cache_hit_expired(cache, key, t) == key \in DOMAIN cache /\ cache[key][1] <= t

\* `cached and cached[0] > now`
cache_hit(cache, key, t) == key \in DOMAIN cache /\ cache[key][1] > t

\* a store that keeps the entry a key already has
cache_put_keep_first(cache, key, expiry, res) ==
    [k \in DOMAIN cache \cup {key} |->
        IF k \in DOMAIN cache THEN cache[k] ELSE <<expiry, res>>]

\* self._cache[key] = (expiry, result)
cache_put(cache, key, expiry, res) ==
    [k \in DOMAIN cache \cup {key} |-> IF k = key THEN <<expiry, res>> ELSE cache[k]]

\* max(cbr.as_of, nbu.as_of, bnc.as_of)
Max3(a, b, c) == IF a >= b /\ a >= c THEN a ELSE IF b >= c THEN b ELSE c

\* the rate facts of three snapshots, without their timestamps
RatesOf(c, n, b) ==
    [eur_rub |-> c.eur_rub, usd_rub |-> c.usd_rub, eur_uah |-> n.eur_uah,
     usd_uah |-> n.usd_uah, eur_usdt |-> b.eur_usdt, usdt_uah |-> b.usdt_uah,
     usdt_usd |-> b.usdt_usd]

\* the states of a cache key of section 4.4 of the specification
EntryState(cache, key, t) ==
    IF key \notin DOMAIN cache THEN "Absent"
    ELSE IF t < cache[key][1] THEN "Fresh" ELSE "Stale"

\* a tail that stores a placeholder entry before it resolves the pair
get_rate_tail_store_first(cache, key, f, t, n, c, b1, b2, last) ==
    LET graph == _build_graph(c, b1, b2)
        found == _find_rate(graph, f, t, n, last)
        early == cache_put(cache, key, n + ttl_seconds, RateResult(One, <<>>, n))
    IN  IF found.ok
        THEN LET res == RateResult(found.rate, found.path, found.as_of)
             IN  [raised |-> FALSE, result |-> res,
                  cache |-> cache_put(early, key, n + ttl_seconds, res)]
        ELSE [raised |-> TRUE, error |-> found.error, cache |-> early]

\* _build_graph divides by each of the seven rates and by uah_rub, which is
\* zero when eur_rub is: a zero among them raises ZeroDivisionError
ZeroDivisor(c, b1, b2) ==
    \E r \in {c.eur_rub, c.usd_rub, b1.eur_uah, b1.usd_uah,
               b2.eur_usdt, b2.usdt_uah, b2.usdt_usd} : r[1] = 0

\* lines 38-42 of get_rate: build the graph, resolve, store, return;
\* an exception of _build_graph or _find_rate leaves before the store
get_rate_tail(cache, key, f, t, n, c, b1, b2, last) ==
    IF ZeroDivisor(c, b1, b2)
    THEN [raised |-> TRUE, error |-> <<"ZeroDivisionError">>, cache |-> cache]
    ELSE
    LET graph == _build_graph(c, b1, b2)
        found == _find_rate(graph, f, t, n, last)
    IN  IF found.ok
        THEN LET res == RateResult(found.rate, found.path, found.as_of)
             IN  [raised |-> FALSE, result |-> res,
                  cache |-> cache_put(cache, key, n + ttl_seconds, res)]
        ELSE [raised |-> TRUE, error |-> found.error, cache |-> cache]

\* RateService.__init__: the cache is empty, no refresh has happened
Constructed ==
    /\ clock = 0
    /\ _cache = <<>>
    /\ _last_sources_as_of = <<>>
    /\ frames = [p \in Procs |-> NoFrame]
    /\ cache_origin = <<>>
    /\ ncalls = 0

\* the coroutines of one user that may be suspended at the same time
Handlers == {1, 2}

\* no coroutine: nothing is suspended in this slot
NoHandler == [pc |-> "idle", loc |-> <<>>]

\* the keyboards of keyboards.py; the keyboard of kbd_choose_currency("get",
\* exclude) is named with the currency it leaves out
Keyboards ==
    {<<"start", "">>, <<"give", "">>, <<"mode", "">>, <<"show_rate", "">>, <<"submit", "">>}
        \cup {<<"get", c>> : c \in Supported}

\* main(): polling starts on an empty MemoryStorage and, the pending updates
\* dropped, on a chat without keyboards; init_db has created empty tables
Polling ==
    /\ fsm_state = "None"
    /\ fsm_data = <<>>
    /\ orders = <<>>
    /\ users = {}
    /\ admin_chat = {}
    /\ screen = [k \in Keyboards |-> 0]
    /\ handlers = [h \in Handlers |-> NoHandler]
    /\ hist = [show_rate |-> FALSE, enter_contact |-> FALSE, created |-> 0, failed |-> FALSE]

Init == asked \in AskedPairs /\ Constructed /\ Polling

(* ------------------------------ actions -------------------------------- *)
\* The clock holds the latest reading of datetime.now(): get_rate reads it
\* once (line 29) and each fetch function once, for as_of; a reading is never
\* before an earlier one.  The steps that read no time leave it alone.

\* what the call finds in the cache: the state of the entry of its key, the
\* expiry of that entry, and the rate and provider rates of the result stored
\* for the reverse pair
Found(f, t, at) ==
    LET key == Key(f, t)
        rev == Key(t, f)
    IN  [state   |-> EntryState(_cache, key, at),
         expiry  |-> IF key \in DOMAIN _cache THEN <<_cache[key][1]>> ELSE <<>>,
         reverse |-> IF rev \in DOMAIN cache_origin
                     THEN <<[rate  |-> cache_origin[rev].returned.rate,
                             rates |-> cache_origin[rev].rates]>>
                     ELSE <<>>]

\* a caller that has no call in flight calls get_rate, callers being numbered
\* in the order they first call; lines 26-32: normalise, look the key up,
\* return a fresh entry or go on to the refresh
Call(p, f, t, at) ==
    /\ frames[p].pc \in {"idle", "done", "raised"}
    /\ clock <= at
    /\ ncalls < MaxCalls
    /\ p <= ncalls + 1
    /\ \E a \in {asked, <<asked[2], asked[1]>>} :
          f \in SpellingsOf(a[1]) /\ t \in SpellingsOf(a[2])
    /\ LET key == Key(Upper(f), Upper(t))
           begun == [NoFrame EXCEPT
                        !.args = <<f, t>>,
                        !.frm = Upper(f), !.to = Upper(t), !.now = at,
                        !.at_start = <<Found(Upper(f), Upper(t), at)>>]
       IN  IF cache_hit(_cache, key, at)
           THEN frames' = [Settled(frames) EXCEPT ![p] =
                              [begun EXCEPT !.result = <<_cache[key][2]>>,
                                            !.origin = <<cache_origin[key].rates>>,
                                            !.pc = "done"]]
           ELSE frames' = [Settled(frames) EXCEPT ![p] =
                              [begun EXCEPT !.pc = "fetch_all"]]
    /\ ncalls' = ncalls + 1
    /\ clock' = at
    /\ UNCHANGED <<asked, _cache, _last_sources_as_of, cache_origin>>
    /\ UNCHANGED flow

\* an exception leaves get_rate: the caller gets the error, the locals are gone
\* a call that stays where it is after an exception and tries again
Raised_tries_again(fr, what) == [fr EXCEPT !.error = <<what>>]

\* the call ends with an exception
Raised(fr, what) ==
    [NoFrame EXCEPT !.pc = "raised", !.error = <<what>>, !.frm = fr.frm, !.to = fr.to,
                    !.now = fr.now, !.requests = fr.requests, !.at_start = fr.at_start]

\* a refresh that asks the NBU before the CBR
Requests_nbu_first == <<"NBU", "CBR", "EURUSDT", "USDTUAH", "USDTUSD">>

\* the requests of one _fetch_all, in the order they are awaited: fetch_cbr,
\* fetch_nbu, and the three prices of fetch_binance
Requests == <<"CBR", "NBU", "EURUSDT", "USDTUAH", "USDTUSD">>

\* RateService._fetch_all with the three fetch functions of providers.py,
\* every request answered.  The five requests are awaited one after the other
\* and touch nothing but the locals of the call, so what other callers do in
\* between shows only in the instants of the answers: ac <= an <= a1 <= a2 <=
\* at, none before the call read `now`.  Each snapshot is stamped when its
\* last answer is in, and _last_sources_as_of is written at instant at.
FetchAll(p, ac, an, a1, a2, at) ==
    /\ frames[p].pc = "fetch_all"
    /\ frames[p].now <= ac /\ ac <= an /\ an <= a1 /\ a1 <= a2 /\ a2 <= at
    /\ clock <= at
    /\ frames' = [Settled(frames) EXCEPT ![p] =
                     [frames[p] EXCEPT
                         !.requests = Requests,
                         !.cbr = <<CbrRates(CbrFeed(Market(ac)).eur_rub,
                                            CbrFeed(Market(ac)).usd_rub, ac)>>,
                         !.nbu = <<NbuRates(NbuFeed(Market(an)).eur_uah,
                                            NbuFeed(Market(an)).usd_uah, an)>>,
                         !.bnc = <<BinanceRates(BinanceFeed(Market(a1)).EURUSDT,
                                                BinanceFeed(Market(a2)).USDTUAH,
                                                BinanceFeed(Market(at)).USDTUSD, at)>>,
                         !.pc = "session_exit"]]
    /\ _last_sources_as_of' = <<Max3(ac, an, at)>>
    /\ clock' = at
    /\ UNCHANGED <<asked, _cache, cache_origin, ncalls>>
    /\ UNCHANGED flow

\* _fetch_all with every request answered at instant at, the euro read from
\* the given Valute, item and price: the three fetch functions convert what
\* the document carries and build the snapshot from it
FetchAllOf(p, valute, item, price, at) ==
    /\ frames[p].pc = "fetch_all"
    /\ frames[p].now <= at
    /\ clock <= at
    /\ frames' = [Settled(frames) EXCEPT ![p] =
                     [frames[p] EXCEPT
                         !.requests = Requests,
                         !.cbr = <<CbrRates(cbr_get_rate(valute),
                                            CbrFeed(Market(at)).usd_rub, at)>>,
                         !.nbu = <<NbuRates(nbu_find(item),
                                            NbuFeed(Market(at)).usd_uah, at)>>,
                         !.bnc = <<BinanceRates(binance_price(price),
                                                BinanceFeed(Market(at)).USDTUAH,
                                                BinanceFeed(Market(at)).USDTUSD, at)>>,
                         !.pc = "session_exit"]]
    /\ _last_sources_as_of' = <<at>>
    /\ clock' = at
    /\ UNCHANGED <<asked, _cache, cache_origin, ncalls>>
    /\ UNCHANGED flow

\* _fetch_all when its k-th request fails (timeout, non-2xx status, currency
\* or field missing): no later request is sent, the exception leaves
\* _fetch_all and get_rate before _last_sources_as_of is written
FetchFails(p, k) ==
    /\ frames[p].pc = "fetch_all"
    /\ frames' = [Settled(frames) EXCEPT ![p] =
                     Raised([frames[p] EXCEPT !.requests = SubSeq(Requests, 1, k)],
                            <<"FetchError", Requests[k]>>)]
    /\ UNCHANGED <<asked, clock, _cache, _last_sources_as_of, cache_origin, ncalls>>
    /\ UNCHANGED flow

\* get_rate lines 35-42: the session context manager has been left
\* (ClientSession.__aexit__ awaits close()), then the graph is built, the
\* pair is resolved and the entry is stored; tail is the one outcome of
\* lines 38-42
Finish(p) ==
    /\ frames[p].pc = "session_exit"
    /\ LET fr   == frames[p]
           key  == Key(fr.frm, fr.to)
           rates == RatesOf(fr.cbr[1], fr.nbu[1], fr.bnc[1])
       IN  \E tail \in {get_rate_tail(_cache, key, fr.frm, fr.to, fr.now,
                                      fr.cbr[1], fr.nbu[1], fr.bnc[1],
                                      _last_sources_as_of)} :
           /\ _cache' = tail.cache
           /\ IF tail.raised
              THEN /\ frames' = [Settled(frames) EXCEPT ![p] = Raised(fr, tail.error)]
                   /\ UNCHANGED cache_origin
              ELSE /\ frames' = [Settled(frames) EXCEPT ![p] =
                                    [fr EXCEPT !.result = <<tail.result>>,
                                               !.origin = <<rates>>,
                                               !.pc = "done"]]
                   /\ cache_origin' =
                         [k \in DOMAIN cache_origin \cup {key} |->
                             IF k = key
                             THEN [rates |-> rates, requests |-> fr.requests,
                                   returned |-> tail.result, args |-> fr.args,
                                   writes |-> IF key \in DOMAIN cache_origin
                                              THEN cache_origin[key].writes + 1 ELSE 1]
                                        ELSE cache_origin[k]]
    /\ UNCHANGED <<asked, clock, _last_sources_as_of, ncalls>>
    /\ UNCHANGED flow

Next ==
    \/ \E p \in Procs : \E f \in Codes, t \in Codes : \E at \in 0..MaxTime : Call(p, f, t, at)
    \/ \E p \in Procs : \E ac, an, a1, a2, at \in 0..MaxTime : FetchAll(p, ac, an, a1, a2, at)
    \/ \E p \in Procs : \E k \in 1..Len(Requests) : FetchFails(p, k)
    \/ \E p \in Procs : Finish(p)

Spec == Init /\ [][Next]_vars

\* The scheduling of the calls, for an identity pair, a pair two edges apart
\* and a pair with an unknown code.  Every request of providers.py carries
\* timeout=20, so a refresh that is not answered fails: weak fairness of
\* TimesOut(p), which an answered refresh disables.  The event loop resumes a
\* coroutine whose await is over, so a call that left the session goes on to
\* line 38: weak fairness of Finish(p).  Finish(p) is enabled exactly while
\* call p is at session_exit and every Finish(p) step leaves session_exit,
\* so its weak fairness is written as what it means: call p is not at
\* session_exit for ever.
TimesOut(p) == \E k \in 1..Len(Requests) : FetchFails(p, k)

InitFair ==
    asked \in {<<"USD", "USD">>, <<"USD", "EUR">>, <<"USD", "GBP">>} /\ Constructed /\ Polling

SpecFair ==
    /\ InitFair /\ [][Next]_vars
    /\ \A p \in Procs : WF_vars(TimesOut(p))
    /\ \A p \in Procs : []<>(frames[p].pc # "session_exit")

\* The resolver on every pair of codes: one caller asks about any pair, one
\* call after the other, and every provider request is answered.
InitAllPairs == asked \in AllPairs /\ Constructed /\ Polling

NextAllPairs ==
    \/ \E f \in Codes, t \in Codes : \E at \in 0..MaxTime : Call(1, f, t, at)
    \/ \E ac, an, a1, a2, at \in 0..MaxTime : FetchAll(1, ac, an, a1, a2, at)
    \/ Finish(1)

SpecAllPairs == InitAllPairs /\ [][NextAllPairs]_vars

\* The spellings of the codes: one caller asks about a pair in any spelling,
\* one call after the other, and every provider request is answered.
NextSpellings ==
    \/ \E f \in Spellings, t \in Spellings : \E at \in 0..MaxTime : Call(1, f, t, at)
    \/ \E ac, an, a1, a2, at \in 0..MaxTime : FetchAll(1, ac, an, a1, a2, at)
    \/ Finish(1)

SpecSpellings == Init /\ [][NextSpellings]_vars

\* The documents of the feeds: one caller, one call after the other, every
\* request answered, the euro quoted as any of the documents above.
NextDocuments ==
    \/ \E f \in Codes, t \in Codes : \E at \in 0..MaxTime : Call(1, f, t, at)
    \/ \E valute \in CbrValutes, item \in NbuItems, price \in BinancePrices :
          \E at \in 0..MaxTime : FetchAllOf(1, valute, item, price, at)
    \/ Finish(1)

SpecDocuments == Init /\ [][NextDocuments]_vars

(* --------------------------- conversation ------------------------------ *)
\* states.ExchangeFlow, in the order of the class body
ExchangeFlow ==
    <<"choose_give", "choose_get", "choose_amount_mode", "enter_amount",
      "enter_from_location", "enter_to_location", "waiting_for_calc",
      "enter_contact", "waiting_for_submit">>

\* call.from_user.id / message.from_user.id of the one user of the chat
UserId == 1

\* what the user does: the buttons tapped on the currency keyboards and on
\* the mode keyboard (the others have one button and "back"), and the texts
\* sent while an amount, a location or a contact is asked for
TappedGive == {"USD", "EUR"}

TappedGet == {"EUR"}

TappedMode == {"give"}

AmountTexts == {"2,5", "0", "abc"}

LocationTexts == {"Kyiv", " K "}

ContactTexts == {"@ann", " 7 "}

\* str.strip() on the texts above
strip(text) ==
    CASE text = " K " -> "K"
      [] text = " 7 " -> "7"
      [] OTHER        -> text

\* _parse_amount on the texts above: spaces removed, the comma read as the
\* decimal point, float(); None unless the value is positive
_parse_amount(text) ==
    CASE text = "2,5" -> <<Rat(5, 2)>>
      [] text = "0"   -> <<>>
      [] OTHER        -> <<>>

\* round(x, 3) of a positive rate
round3(x) == Rat(RoundHalfEven(x[1] * 1000, x[2]), 1000)

\* _round_money_no_cents: int(round(x))
_round_money_no_cents(x) == RoundHalfEven(x[1], x[2])

\* data.get(key): <<>> for None
data_get(d, key) == IF key \in DOMAIN d THEN <<d[key]>> ELSE <<>>

\* state.update_data(**kwargs): dict.update
update_data(d, kwargs) == kwargs @@ d

\* the keys show_rate reads with data[...] (lines 192-197)
CalcKeys ==
    {"give_currency", "get_currency", "amount_mode", "amount_value",
     "from_location", "to_location"}

\* the keys submit reads with data[...] (lines 289-300)
SubmitKeys == CalcKeys \cup {"order_id", "rate", "give_out", "get_out"}

\* the callback data of the buttons of a keyboard, <<prefix, rest>> for
\* "prefix:rest"
Buttons(kbd) ==
    CASE kbd[1] = "start"     -> {<<"start_calc", "">>}
      [] kbd[1] = "give"      -> {<<"give", c>> : c \in Supported} \cup {<<"back", "">>}
      [] kbd[1] = "get"       -> {<<"get", c>> : c \in Supported \ {kbd[2]}}
                                    \cup {<<"back", "">>}
      [] kbd[1] = "mode"      -> {<<"mode", "give">>, <<"mode", "get">>, <<"back", "">>}
      [] kbd[1] = "show_rate" -> {<<"show_rate", "">>, <<"back", "">>}
      [] kbd[1] = "submit"    -> {<<"submit", "">>, <<"back", "">>}

\* the number of messages with a keyboard in the chat
RECURSIVE CountOver(_, _)
CountOver(scr, ks) ==
    IF ks = {} THEN 0
    ELSE LET k == CHOOSE x \in ks : TRUE IN scr[k] + CountOver(scr, ks \ {k})

OnScreen(scr) == CountOver(scr, Keyboards)

\* the user can tap button cb of a message that carries keyboard kbd
CanTap(kbd, cb) == screen[kbd] > 0 /\ cb \in Buttons(kbd)

\* message.answer(..., reply_markup=kbd): a new message with the keyboard
answer(scr, kbd) == [scr EXCEPT ![kbd] = @ + 1]

\* call.message.edit_text(...) without reply_markup: the keyboard of the
\* tapped message is gone
edit_text_plain(scr, old) == [scr EXCEPT ![old] = @ - 1]

\* call.message.edit_text(..., reply_markup=new) on the tapped message
edit_text(scr, old, new) == answer(edit_text_plain(scr, old), new)

\* no coroutine of the user is suspended
AllIdle == \A h \in Handlers : handlers[h].pc = "idle"

\* the slot a new coroutine takes: the lowest free one
FreeHandler(h) ==
    /\ handlers[h].pc = "idle"
    /\ \A g \in Handlers : g < h => handlers[g].pc # "idle"

\* the show_rate coroutines that have not yet inserted their order
Calculating == {h \in Handlers : handlers[h].pc = "get_rate"}

\* history: the data was cleared or changed by a handler other than
\* show_rate and enter_contact
Changed(hs) == [hs EXCEPT !.show_rate = FALSE, !.enter_contact = FALSE]

\* the quotations of market m as the three snapshots of one refresh
QuotedAt(m) ==
    [eur_rub |-> CbrFeed(m).eur_rub, usd_rub |-> CbrFeed(m).usd_rub,
     eur_uah |-> NbuFeed(m).eur_uah, usd_uah |-> NbuFeed(m).usd_uah,
     eur_usdt |-> BinanceFeed(m).EURUSDT, usdt_uah |-> BinanceFeed(m).USDTUAH,
     usdt_usd |-> BinanceFeed(m).USDTUSD]

\* what rate_service.get_rate(give, get) returns to show_rate when it
\* returns: the pair resolved on the quotations of the market at instant t
rate_service_get_rate(give, get, t) ==
    _find_rate(_build_graph(QuotedAt(Market(t)), QuotedAt(Market(t)), QuotedAt(Market(t))),
               give, get, t, <<>>)

\* Order(...) as create_order adds it: stage "calc", nothing calculated yet
Order(loc) ==
    [user_id |-> UserId, give_currency |-> loc.give, get_currency |-> loc.get,
     amount_mode |-> loc.mode, amount_value |-> loc.amount,
     from_location |-> loc.from_loc, to_location |-> loc.to_loc,
     stage |-> "calc", rate |-> <<>>, calculated_give |-> <<>>,
     calculated_get |-> <<>>, sources |-> <<>>, contact |-> <<>>]

\* repository.create_order: the row is inserted, its id is its position
create_order(table, loc) == Append(table, Order(loc))

\* repository.set_order_calc: nothing when the order does not exist
set_order_calc(table, order_id, rate, calculated_give, calculated_get, sources) ==
    IF order_id \notin DOMAIN table THEN table
    ELSE [table EXCEPT ![order_id] =
             [@ EXCEPT !.rate = <<rate>>, !.calculated_give = <<calculated_give>>,
                       !.calculated_get = <<calculated_get>>, !.sources = <<sources>>]]

\* repository.set_order_contact_and_submit: nothing when the order does not
\* exist
set_order_contact_and_submit(table, order_id, contact) ==
    IF order_id \notin DOMAIN table THEN table
    ELSE [table EXCEPT ![order_id] =
             [@ EXCEPT !.contact = <<contact>>, !.stage = "submitted"]]

\* the admin notification of show_rate ("calc") and of submit ("submit"),
\* with the fields of the text that the claims are about
Notification(kind, loc, contact) ==
    [kind |-> kind, order_id |-> loc.order_id, give |-> loc.give, get |-> loc.get,
     mode |-> loc.mode, amount |-> loc.amount, rate |-> loc.rate,
     give_out |-> loc.give_out, get_out |-> loc.get_out, contact |-> contact]

(* ------------------------ conversation handlers ------------------------ *)
\* A handler runs when the update reaches it: a callback handler when the
\* user taps a button that is on the screen, a message handler when the user
\* sends a text.  MemoryStorage never suspends, so the state and data writes
\* of a handler that come before its first request to Telegram or to the
\* database happen in one step; the handlers but show_rate and submit write
\* nothing after it, and the edit of the tapped message is taken with them.
\* An update that no handler matches, or that a handler answers with an
\* alert or with a request to repeat, changes nothing.

\* cmd_start: /start in any state
cmd_start ==
    /\ OnScreen(screen) < MaxKeyboards
    /\ fsm_state' = "None"
    /\ fsm_data' = <<>>
    /\ users' = users \cup {UserId}
    /\ screen' = answer(screen, <<"start", "">>)
    /\ hist' = Changed(hist)
    /\ UNCHANGED <<orders, admin_chat, handlers>>
    /\ UNCHANGED service

\* start_calc: F.data == "start_calc", in any state; update_data() without
\* arguments leaves the data as it is
start_calc ==
    /\ CanTap(<<"start", "">>, <<"start_calc", "">>)
    /\ fsm_state' = "choose_give"
    /\ fsm_data' = update_data(fsm_data, <<>>)
    /\ screen' = edit_text(screen, <<"start", "">>, <<"give", "">>)
    /\ UNCHANGED <<orders, users, admin_chat, handlers, hist>>
    /\ UNCHANGED service

\* choose_give: F.data.startswith("give:"), in any state
choose_give(give) ==
    /\ CanTap(<<"give", "">>, <<"give", give>>)
    /\ IF give \notin Supported
       THEN UNCHANGED flow
       ELSE /\ fsm_data' = update_data(fsm_data, [give_currency |-> give])
            /\ fsm_state' = "choose_get"
            /\ screen' = edit_text(screen, <<"give", "">>, <<"get", give>>)
            /\ hist' = Changed(hist)
            /\ UNCHANGED <<orders, users, admin_chat, handlers>>
    /\ UNCHANGED service

\* choose_get: F.data.startswith("get:"), in any state, tapped on the
\* keyboard that leaves out currency exclude
choose_get(exclude, get) ==
    /\ CanTap(<<"get", exclude>>, <<"get", get>>)
    /\ LET give == data_get(fsm_data, "give_currency")
       IN  IF get \notin Supported \/ give = <<>> \/ <<get>> = give
           THEN UNCHANGED flow
           ELSE /\ fsm_data' = update_data(fsm_data, [get_currency |-> get])
                /\ fsm_state' = "choose_amount_mode"
                /\ screen' = edit_text(screen, <<"get", exclude>>, <<"mode", "">>)
                /\ hist' = Changed(hist)
                /\ UNCHANGED <<orders, users, admin_chat, handlers>>
    /\ UNCHANGED service

\* choose_amount_mode: F.data.startswith("mode:"), in any state
choose_amount_mode(mode) ==
    /\ CanTap(<<"mode", "">>, <<"mode", mode>>)
    /\ IF mode \notin {"give", "get"}
       THEN UNCHANGED flow
       ELSE /\ fsm_data' = update_data(fsm_data, [amount_mode |-> mode])
            /\ fsm_state' = "enter_amount"
            /\ screen' = edit_text_plain(screen, <<"mode", "">>)
            /\ hist' = Changed(hist)
            /\ UNCHANGED <<orders, users, admin_chat, handlers>>
    /\ UNCHANGED service

\* enter_amount: a message in state enter_amount
enter_amount(text) ==
    /\ fsm_state = "enter_amount"
    /\ LET val == _parse_amount(text)
       IN  IF val = <<>>
           THEN UNCHANGED flow
           ELSE /\ fsm_data' = update_data(fsm_data, [amount_value |-> val[1]])
                /\ fsm_state' = "enter_from_location"
                /\ hist' = Changed(hist)
                /\ UNCHANGED <<orders, users, admin_chat, screen, handlers>>
    /\ UNCHANGED service

\* enter_from_location: a message in state enter_from_location
enter_from_location(text) ==
    /\ fsm_state = "enter_from_location"
    /\ IF Len(strip(text)) < 2
       THEN UNCHANGED flow
       ELSE /\ fsm_data' = update_data(fsm_data, [from_location |-> strip(text)])
            /\ fsm_state' = "enter_to_location"
            /\ hist' = Changed(hist)
            /\ UNCHANGED <<orders, users, admin_chat, screen, handlers>>
    /\ UNCHANGED service

\* enter_to_location: a message in state enter_to_location; the summary is
\* answered with the show_rate keyboard
enter_to_location(text) ==
    /\ fsm_state = "enter_to_location"
    /\ IF Len(strip(text)) < 2
       THEN UNCHANGED flow
       ELSE /\ OnScreen(screen) < MaxKeyboards
            /\ fsm_data' = update_data(fsm_data, [to_location |-> strip(text)])
            /\ fsm_state' = "waiting_for_calc"
            /\ screen' = answer(screen, <<"show_rate", "">>)
            /\ hist' = [Changed(hist) EXCEPT !.created = 0, !.failed = FALSE]
            /\ UNCHANGED <<orders, users, admin_chat, handlers>>
    /\ UNCHANGED service

\* show_rate lines 191-200: the filter (state waiting_for_calc, F.data ==
\* "show_rate"), the data read into locals, get_rate awaited; a missing key
\* is a KeyError that ends the handler with nothing changed
ShowRateBegin(h) ==
    /\ CanTap(<<"show_rate", "">>, <<"show_rate", "">>)
    /\ fsm_state = "waiting_for_calc"
    /\ FreeHandler(h)
    /\ CalcKeys \subseteq DOMAIN fsm_data
    /\ Len(orders) + Cardinality(Calculating) < MaxOrders
    /\ handlers' = [handlers EXCEPT ![h] =
                       [pc  |-> "get_rate",
                        loc |-> [give |-> fsm_data["give_currency"],
                                 get |-> fsm_data["get_currency"],
                                 mode |-> fsm_data["amount_mode"],
                                 amount |-> fsm_data["amount_value"],
                                 from_loc |-> fsm_data["from_location"],
                                 to_loc |-> fsm_data["to_location"]]]]
    /\ UNCHANGED <<fsm_state, fsm_data, orders, users, admin_chat, screen, hist>>
    /\ UNCHANGED service

\* a show_rate that has inserted its order before it asks for the rate
ShowRateFails_order_first(h) ==
    /\ handlers[h].pc = "get_rate"
    /\ orders' = create_order(orders, handlers[h].loc)
    /\ handlers' = [handlers EXCEPT ![h] = NoHandler]
    /\ hist' = [hist EXCEPT !.failed = TRUE]
    /\ UNCHANGED <<fsm_state, fsm_data, users, admin_chat, screen>>
    /\ UNCHANGED service

\* show_rate lines 201-204: get_rate raised; an alert is answered, the
\* exception is logged, the handler returns
ShowRateFails(h) ==
    /\ handlers[h].pc = "get_rate"
    /\ handlers' = [handlers EXCEPT ![h] = NoHandler]
    /\ hist' = [hist EXCEPT !.failed = TRUE]
    /\ UNCHANGED <<fsm_state, fsm_data, orders, users, admin_chat, screen>>
    /\ UNCHANGED service

\* show_rate lines 206-238: get_rate returned rr; the amounts are computed,
\* create_order inserts the order and set_order_calc records the calculation
ShowRateStores(h) ==
    /\ handlers[h].pc = "get_rate"
    /\ LET loc      == handlers[h].loc
           rr       == rate_service_get_rate(loc.give, loc.get, clock)
           rate     == round3(rr.rate)
           give_amt == IF loc.mode = "give" THEN loc.amount ELSE Div(loc.amount, rr.rate)
           get_amt  == IF loc.mode = "give" THEN Mul(loc.amount, rr.rate) ELSE loc.amount
           give_out == _round_money_no_cents(give_amt)
           get_out  == _round_money_no_cents(get_amt)
           order_id == Len(orders) + 1
       IN  /\ orders' = set_order_calc(create_order(orders, loc), order_id, rate,
                                       Rat(give_out, 1), Rat(get_out, 1), rr.path)
           /\ handlers' = [handlers EXCEPT ![h] =
                  [pc  |-> "update_data",
                   loc |-> [order_id |-> order_id, rate |-> rate, give_out |-> give_out,
                            get_out |-> get_out, sources |-> rr.path] @@ loc]]
    /\ hist' = [hist EXCEPT !.created = @ + 1]
    /\ UNCHANGED <<fsm_state, fsm_data, users, admin_chat, screen>>
    /\ UNCHANGED service

\* show_rate lines 240-261: the result is written into the conversation
\* data, then the admin is notified (a send_message that fails is logged
\* and changes nothing else; the message is taken to arrive)
ShowRateUpdates(h) ==
    /\ handlers[h].pc = "update_data"
    /\ LET loc == handlers[h].loc
       IN  /\ fsm_data' = update_data(fsm_data,
                  [order_id |-> loc.order_id, rate |-> loc.rate, give_out |-> loc.give_out,
                   get_out |-> loc.get_out, sources |-> loc.sources])
           /\ admin_chat' = admin_chat \cup {Notification("calc", loc, <<>>)}
    /\ handlers' = [handlers EXCEPT ![h].pc = "edit_text"]
    /\ hist' = [hist EXCEPT !.show_rate = TRUE, !.enter_contact = FALSE]
    /\ UNCHANGED <<fsm_state, orders, users, screen>>
    /\ UNCHANGED service

\* the tapped message already shows the text this handler would write:
\* another show_rate handler has edited it with the same pair, rate and
\* amounts; Telegram rejects an edit that modifies nothing
NotModified(h) ==
    /\ screen[<<"show_rate", "">>] = 0
    /\ \E i \in DOMAIN orders :
          /\ i # handlers[h].loc.order_id
          /\ orders[i].give_currency = handlers[h].loc.give
          /\ orders[i].get_currency = handlers[h].loc.get
          /\ orders[i].rate = <<handlers[h].loc.rate>>
          /\ orders[i].calculated_give = <<Rat(handlers[h].loc.give_out, 1)>>
          /\ orders[i].calculated_get = <<Rat(handlers[h].loc.get_out, 1)>>

\* show_rate lines 264-271: the tapped message is edited into the result,
\* without keyboard, and the state becomes enter_contact; an edit that
\* Telegram rejects ends the handler before set_state
ShowRateEnds(h) ==
    /\ handlers[h].pc = "edit_text"
    /\ IF NotModified(h)
       THEN UNCHANGED <<fsm_state, screen>>
       ELSE /\ fsm_state' = "enter_contact"
            /\ screen' = IF screen[<<"show_rate", "">>] > 0
                         THEN edit_text_plain(screen, <<"show_rate", "">>)
                         ELSE screen
    /\ handlers' = [handlers EXCEPT ![h] = NoHandler]
    /\ UNCHANGED <<fsm_data, orders, users, admin_chat, hist>>
    /\ UNCHANGED service

\* a contact handler that takes any text
enter_contact_any_text(text) ==
    /\ fsm_state = "enter_contact"
    /\ OnScreen(screen) < MaxKeyboards
    /\ fsm_data' = update_data(fsm_data, [contact |-> strip(text)])
    /\ fsm_state' = "waiting_for_submit"
    /\ screen' = answer(screen, <<"submit", "">>)
    /\ hist' = [hist EXCEPT !.enter_contact = TRUE]
    /\ UNCHANGED <<orders, users, admin_chat, handlers>>
    /\ UNCHANGED service

\* enter_contact: a message in state enter_contact; the submit keyboard is
\* answered
enter_contact(text) ==
    /\ fsm_state = "enter_contact"
    /\ IF Len(strip(text)) < 2
       THEN UNCHANGED flow
       ELSE /\ OnScreen(screen) < MaxKeyboards
            /\ fsm_data' = update_data(fsm_data, [contact |-> strip(text)])
            /\ fsm_state' = "waiting_for_submit"
            /\ screen' = answer(screen, <<"submit", "">>)
            /\ hist' = [hist EXCEPT !.enter_contact = TRUE]
            /\ UNCHANGED <<orders, users, admin_chat, handlers>>
    /\ UNCHANGED service

\* submit lines 288-304: the filter (state waiting_for_submit, F.data ==
\* "submit"), the data read into locals, the database session opened; a
\* missing key is a KeyError that ends the handler with nothing changed
SubmitBegin(h) ==
    /\ CanTap(<<"submit", "">>, <<"submit", "">>)
    /\ fsm_state = "waiting_for_submit"
    /\ FreeHandler(h)
    /\ SubmitKeys \subseteq DOMAIN fsm_data
    /\ handlers' = [handlers EXCEPT ![h] =
                       [pc  |-> "submit_db",
                        loc |-> [order_id |-> fsm_data["order_id"],
                                 contact |-> IF "contact" \in DOMAIN fsm_data
                                             THEN fsm_data["contact"] ELSE "",
                                 give |-> fsm_data["give_currency"],
                                 get |-> fsm_data["get_currency"],
                                 mode |-> fsm_data["amount_mode"],
                                 amount |-> fsm_data["amount_value"],
                                 rate |-> fsm_data["rate"],
                                 give_out |-> fsm_data["give_out"],
                                 get_out |-> fsm_data["get_out"]]]]
    /\ UNCHANGED <<fsm_state, fsm_data, orders, users, admin_chat, screen, hist>>
    /\ UNCHANGED service

\* submit line 304: set_order_contact_and_submit
SubmitStores(h) ==
    /\ handlers[h].pc = "submit_db"
    /\ orders' = set_order_contact_and_submit(orders, handlers[h].loc.order_id,
                                              handlers[h].loc.contact)
    /\ handlers' = [handlers EXCEPT ![h].pc = "submit_notify"]
    /\ UNCHANGED <<fsm_state, fsm_data, users, admin_chat, screen, hist>>
    /\ UNCHANGED service

\* submit lines 306-329: the admin is notified, the
\* tapped message is edited into the confirmation and the conversation is
\* cleared; the edit of a message that already shows the confirmation is
\* rejected by Telegram and ends the handler before state.clear()
SubmitEnds(h) ==
    /\ handlers[h].pc = "submit_notify"
    /\ admin_chat' = admin_chat \cup {Notification("submit", handlers[h].loc,
                                                   <<handlers[h].loc.contact>>)}
    /\ IF screen[<<"submit", "">>] = 0
       THEN UNCHANGED <<fsm_state, fsm_data, screen, hist>>
       ELSE /\ screen' = edit_text_plain(screen, <<"submit", "">>)
            /\ fsm_state' = "None"
            /\ fsm_data' = <<>>
            /\ hist' = Changed(hist)
    /\ handlers' = [handlers EXCEPT ![h] = NoHandler]
    /\ UNCHANGED <<orders, users>>
    /\ UNCHANGED service

\* back: F.data == "back", in any state, tapped on a message with keyboard kbd
back(kbd) ==
    /\ CanTap(kbd, <<"back", "">>)
    /\ fsm_state' = "None"
    /\ fsm_data' = <<>>
    /\ screen' = edit_text(screen, kbd, <<"start", "">>)
    /\ hist' = Changed(hist)
    /\ UNCHANGED <<orders, users, admin_chat, handlers>>
    /\ UNCHANGED service

\* The conversation of one user, the updates handled one at a time: the
\* next update is taken when the handler of the one before has returned.
InitFlow == asked = <<"USD", "EUR">> /\ Constructed /\ Polling

NextFlow ==
    \/ AllIdle /\ cmd_start
    \/ AllIdle /\ start_calc
    \/ AllIdle /\ \E give \in TappedGive : choose_give(give)
    \/ AllIdle /\ \E exclude \in TappedGive, get \in TappedGet : choose_get(exclude, get)
    \/ AllIdle /\ \E mode \in TappedMode : choose_amount_mode(mode)
    \/ AllIdle /\ \E text \in AmountTexts : enter_amount(text)
    \/ AllIdle /\ \E text \in LocationTexts : enter_from_location(text)
    \/ AllIdle /\ \E text \in LocationTexts : enter_to_location(text)
    \/ AllIdle /\ \E h \in Handlers : ShowRateBegin(h)
    \/ \E h \in Handlers : ShowRateFails(h)
    \/ \E h \in Handlers : ShowRateStores(h)
    \/ \E h \in Handlers : ShowRateUpdates(h)
    \/ \E h \in Handlers : ShowRateEnds(h)
    \/ AllIdle /\ \E text \in ContactTexts : enter_contact(text)
    \/ AllIdle /\ \E h \in Handlers : SubmitBegin(h)
    \/ \E h \in Handlers : SubmitStores(h)
    \/ \E h \in Handlers : SubmitEnds(h)
    \/ AllIdle /\ \E kbd \in Keyboards : back(kbd)

SpecFlow == InitFlow /\ [][NextFlow]_vars

\* The conversation of one user with the updates handled as tasks
\* (Dispatcher.start_polling, handle_as_tasks): a handler suspended at a
\* request to the rate service, the database or Telegram lets the handlers
\* of later updates of the same user run.
NextTasks ==
    \/ cmd_start
    \/ start_calc
    \/ \E give \in TappedGive : choose_give(give)
    \/ \E exclude \in TappedGive, get \in TappedGet : choose_get(exclude, get)
    \/ \E mode \in TappedMode : choose_amount_mode(mode)
    \/ \E text \in AmountTexts : enter_amount(text)
    \/ \E text \in LocationTexts : enter_from_location(text)
    \/ \E text \in LocationTexts : enter_to_location(text)
    \/ \E h \in Handlers : ShowRateBegin(h)
    \/ \E h \in Handlers : ShowRateFails(h)
    \/ \E h \in Handlers : ShowRateStores(h)
    \/ \E h \in Handlers : ShowRateUpdates(h)
    \/ \E h \in Handlers : ShowRateEnds(h)
    \/ \E text \in ContactTexts : enter_contact(text)
    \/ \E h \in Handlers : SubmitBegin(h)
    \/ \E h \in Handlers : SubmitStores(h)
    \/ \E h \in Handlers : SubmitEnds(h)
    \/ \E kbd \in Keyboards : back(kbd)

SpecTasks == InitFlow /\ [][NextTasks]_vars

(* ------------------------------ claims --------------------------------- *)
\* the requests of one full refresh: fetch_cbr, fetch_nbu, fetch_binance
OneRefresh == Requests

\* the rate facts of the scenario of section 8 of the specification
ScenarioRates ==
    [eur_rub |-> Rat(100, 1), usd_rub |-> Rat(90, 1), eur_uah |-> Rat(45, 1),
     usd_uah |-> Rat(40, 1), eur_usdt |-> Rat(11, 10), usdt_uah |-> Rat(41, 1),
     usdt_usd |-> Rat(1, 1)]

\* the graph built from a record of rate facts
GraphOf(rates) == _build_graph(rates, rates, rates)

\* a code that touches no edge of the graph
Isolated(graph, c) ==
    /\ graph_get(graph, c) = <<>>
    /\ \A a \in DOMAIN graph : \A i \in 1..Len(graph[a]) : graph[a][i][1] # c

\* the codes no provider quotes: the edges of the graph are the same for
\* all rates
Unquoted == {c \in Codes : Isolated(GraphOf(ScenarioRates), c)}

HasEdge(graph, a, b) == \E i \in 1..Len(graph_get(graph, a)) : graph[a][i][1] = b

\* the ordered pairs joined by a direct or derived edge
Joined == {ab \in Codes \X Codes : HasEdge(GraphOf(ScenarioRates), ab[1], ab[2])}

\* the fewest edges of a route from a to b (0 when there is none within n)
RECURSIVE HopsFrom(_, _, _, _, _)
HopsFrom(graph, reached, b, k, n) ==
    IF b \in reached THEN k
    ELSE IF k = n THEN 0
    ELSE HopsFrom(graph,
                  reached \cup UNION {{graph[a][i][1] : i \in 1..Len(graph[a])} :
                                         a \in reached \cap DOMAIN graph},
                  b, k + 1, n)

Started(p) == frames[p].at_start # <<>>
Returned(p) == frames[p].pc = "done"
Refreshed(p) == frames[p].pc = "done" /\ frames[p].requests # <<>>

\* C1 (as claimed): get_rate(X, X) for a supported X returns rate 1.0 and an
\* empty path without any provider fetch, whatever the state of key X->X.
C1_IdentityWithoutFetch ==
    \A p \in Procs :
        (Started(p) /\ frames[p].frm = frames[p].to /\ frames[p].frm \in Supported)
        => /\ frames[p].pc = "done"
           /\ frames[p].requests = <<>>
           /\ frames[p].result[1].rate = One
           /\ frames[p].result[1].path = <<>>

\* C2: a get_rate(A, B) that starts while the stored entry of A->B is Fresh
\* returns at once the very RateResult the storing call returned, issues no
\* provider request, and the storing call issued exactly one refresh
\* (fetch_cbr, fetch_nbu, fetch_binance, each once).
C2_FreshEntryServed ==
    \A p \in Procs :
        (Started(p) /\ frames[p].at_start[1].state = "Fresh")
        => /\ frames[p].pc = "done"
           /\ frames[p].requests = <<>>
           /\ frames[p].result = <<cache_origin[Key(frames[p].frm, frames[p].to)].returned>>
           /\ cache_origin[Key(frames[p].frm, frames[p].to)].requests = OneRefresh

C2_Witness ==
    \E p \in Procs : Started(p) /\ frames[p].at_start[1].state = "Fresh" /\ frames[p].pc = "done"
                     /\ frames[p].frm # frames[p].to

\* C3: a step in which a get_rate call fails (a provider request raises, or
\* no path is found) hands the error to the caller, returns no result and
\* leaves the cache as it was, so every Fresh entry is still a hit; the cache
\* changes only in the step in which a refresh completes successfully.
C3_FailedRefreshKeepsCache ==
    [][ /\ \A p \in Procs :
              (frames'[p].pc = "raised" /\ frames[p].pc # "raised")
              => /\ _cache' = _cache
                 /\ frames'[p].error # <<>>
                 /\ frames'[p].result = <<>>
                 /\ \A k \in DOMAIN _cache :
                        EntryState(_cache, k, clock) = "Fresh"
                        => cache_hit(_cache', k, clock') /\ _cache'[k] = _cache[k]
        /\ (_cache' # _cache
            => \E p \in Procs : frames[p].pc = "session_exit" /\ frames'[p].pc = "done") ]_vars

C3_Witness ==
    \E p \in Procs :
        /\ frames[p].pc = "raised"
        /\ \E k \in DOMAIN _cache :
              k # Key(frames[p].frm, frames[p].to) /\ EntryState(_cache, k, clock) = "Fresh"

\* C4: a get_rate that starts on a Stale entry (now >= expiry, the instant
\* now = expiry included) is never served from the cache: it goes through the
\* full refresh like a call on an Absent key, returns the outcome of its own
\* refresh, and returns nothing when that refresh fails.
C4_StaleEntryRefreshed ==
    \A p \in Procs :
        (Started(p) /\ frames[p].at_start[1].state \in {"Stale", "Absent"})
        => /\ frames[p].pc = "done"
              => /\ frames[p].requests = OneRefresh
                 /\ frames[p].origin = <<RatesOf(frames[p].cbr[1], frames[p].nbu[1], frames[p].bnc[1])>>
                 /\ \E own \in {_find_rate(_build_graph(frames[p].cbr[1], frames[p].nbu[1],
                                                        frames[p].bnc[1]),
                                           frames[p].frm, frames[p].to, frames[p].now, <<>>)} :
                        frames[p].result[1].rate = own.rate /\ frames[p].result[1].path = own.path
           /\ frames[p].pc # "done" => frames[p].result = <<>>

C4_Witness ==
    \E p \in Procs :
        /\ Started(p) /\ frames[p].at_start[1].state = "Stale"
        /\ frames[p].at_start[1].expiry = <<frames[p].now>>
        /\ frames[p].pc = "done"

\* C5 (as claimed): a get_rate naming a currency that touches no edge of the
\* graph never returns a rate and, once the graph is built, fails with the
\* no-path error naming source and destination -- also when source and
\* destination are both that currency.
C5_UnreachableAlwaysFails ==
    \A p \in Procs :
        (Started(p) /\ (frames[p].frm \in Unquoted \/ frames[p].to \in Unquoted))
        => /\ frames[p].pc # "done"
           /\ frames[p].result = <<>>
           /\ (frames[p].pc = "raised" /\ frames[p].requests = OneRefresh
               /\ frames[p].error[1][1] # "FetchError")
              => frames[p].error = <<NoPathError(frames[p].frm, frames[p].to)>>

\* C5 (amended): the same, for requests whose source and destination differ.
C5_UnreachableFailsUnlessIdentity ==
    \A p \in Procs :
        (Started(p) /\ frames[p].frm # frames[p].to
                    /\ (frames[p].frm \in Unquoted \/ frames[p].to \in Unquoted))
        => /\ frames[p].pc # "done"
           /\ frames[p].result = <<>>
           /\ (frames[p].pc = "raised" /\ frames[p].requests = OneRefresh
               /\ frames[p].error[1][1] # "FetchError")
              => frames[p].error = <<NoPathError(frames[p].frm, frames[p].to)>>

C5_Witness ==
    \E p \in Procs :
        /\ frames[p].pc = "raised" /\ frames[p].requests = OneRefresh
        /\ frames[p].to \in Unquoted
        /\ frames[p].error = <<NoPathError(frames[p].frm, frames[p].to)>>

\* C6 (as claimed): with the scenario snapshots get_rate(USD, EUR) returns
\* rate 9/10 and a path of a single hop labelled CBR.
C6_UsdEurSingleHop ==
    \A p \in Procs :
        (Returned(p) /\ frames[p].frm = "USD" /\ frames[p].to = "EUR" /\ frames[p].origin = <<ScenarioRates>>)
        => /\ frames[p].result[1].rate = Rat(9, 10)
           /\ Len(frames[p].result[1].path) = 1
           /\ frames[p].result[1].path[1][3] = "CBR"

\* C6 (amended): with the scenario snapshots get_rate(USD, EUR) returns rate
\* 9/10 and the two-hop path USD->RUB, RUB->EUR, both hops labelled CBR.
C6_UsdEurTwoCbrHops ==
    \A p \in Procs :
        (Returned(p) /\ frames[p].frm = "USD" /\ frames[p].to = "EUR" /\ frames[p].origin = <<ScenarioRates>>)
        => /\ frames[p].result[1].rate = Rat(9, 10)
           /\ frames[p].result[1].path = << <<"USD", "RUB", "CBR">>, <<"RUB", "EUR", "CBR">> >>

C6_Witness ==
    \E p \in Procs :
        Refreshed(p) /\ frames[p].frm = "USD" /\ frames[p].to = "EUR" /\ frames[p].origin = <<ScenarioRates>>

\* C7: with the scenario snapshots get_rate(UAH, RUB) returns rate 100/45 and
\* the one-hop path (UAH, RUB, "CBR+NBU"), although UAH->EUR and UAH->USD
\* stand before the bridge edge in the edge list of UAH.
C7_UahRubBridge ==
    \A p \in Procs :
        (Returned(p) /\ frames[p].frm = "UAH" /\ frames[p].to = "RUB" /\ frames[p].origin = <<ScenarioRates>>)
        => /\ frames[p].result[1].rate = Rat(100, 45)
           /\ frames[p].result[1].path = << <<"UAH", "RUB", "CBR+NBU">> >>
           /\ LET edges == GraphOf(frames[p].origin[1])["UAH"]
              IN  edges[1][1] = "EUR" /\ edges[2][1] = "USD" /\ edges[3][1] = "RUB"

C7_Witness ==
    \E p \in Procs :
        Refreshed(p) /\ frames[p].frm = "UAH" /\ frames[p].to = "RUB" /\ frames[p].origin = <<ScenarioRates>>

\* the call p began when a get_rate for the reverse pair had returned (its
\* result stood in the cache), and the pair is joined by an edge
FollowsReverse(p) ==
    /\ Returned(p)
    /\ frames[p].frm # frames[p].to
    /\ frames[p].at_start[1].reverse # <<>>
    /\ <<frames[p].frm, frames[p].to>> \in Joined

\* C8 (as claimed): for A, B joined by an edge, the rate returned by
\* get_rate(A, B) times the rate returned by a following get_rate(B, A) is
\* exactly 1, for every sequence of calls and cache states.
C8_RoundTripAlwaysOne ==
    \A p \in Procs :
        FollowsReverse(p)
        => Mul(frames[p].at_start[1].reverse[1].rate,
               frames[p].result[1].rate) = One

\* C8 (amended): ... is exactly 1 whenever the two results were resolved from
\* equal provider rates.
C8_RoundTripOneOnEqualRates ==
    \A p \in Procs :
        (FollowsReverse(p)
         /\ frames[p].origin = <<frames[p].at_start[1].reverse[1].rates>>)
        => Mul(frames[p].at_start[1].reverse[1].rate,
               frames[p].result[1].rate) = One

C8_Witness ==
    \E p \in Procs :
        /\ FollowsReverse(p)
        /\ frames[p].origin = <<frames[p].at_start[1].reverse[1].rates>>
        /\ Refreshed(p)
        /\ frames[p].result[1].rate # One

\* C9: for distinct A, B with a route in the built graph, the returned path
\* has the fewest hops of all routes from A to B.
C9_MinimumHops ==
    \A p \in Procs :
        (Returned(p) /\ frames[p].frm # frames[p].to)
        => /\ Len(frames[p].result[1].path) >= 1
           /\ Len(frames[p].result[1].path)
                = HopsFrom(GraphOf(frames[p].origin[1]), {frames[p].frm}, frames[p].to,
                           0, Cardinality(Codes))

C9_Witness ==
    \E p \in Procs : Refreshed(p) /\ frames[p].frm # frames[p].to /\ Len(frames[p].result[1].path) = 2

\* C10 (as claimed): the as_of of a result produced by a refresh is the
\* latest of the three timestamps of the snapshots its graph was built from,
\* under every interleaving of concurrent calls.
C10_AsOfIsOwnLatest ==
    \A p \in Procs :
        Refreshed(p)
        => frames[p].result[1].as_of = Max3(frames[p].cbr[1].as_of, frames[p].nbu[1].as_of, frames[p].bnc[1].as_of)

\* C11: the step in which a refresh completes -- also the refresh of a call
\* that missed while another call for the same key was refreshing -- returns
\* the rate and path resolved from the call's own snapshots after its own five
\* requests, and writes the entry of its own key only: afterwards the cache
\* holds for the key the expiry and result of this last writer, and every
\* other key is as before.
C11_LastWriterWins ==
    [][ \A p \in Procs :
          (frames[p].pc = "session_exit" /\ frames'[p].pc = "done")
          => /\ frames'[p].requests = OneRefresh
             /\ \E own \in {_find_rate(_build_graph(frames[p].cbr[1], frames[p].nbu[1],
                                                    frames[p].bnc[1]),
                                       frames[p].frm, frames[p].to, frames[p].now, <<>>)} :
                   /\ frames'[p].result[1].rate = own.rate
                   /\ frames'[p].result[1].path = own.path
             /\ DOMAIN _cache' = DOMAIN _cache \cup {Key(frames[p].frm, frames[p].to)}
             /\ _cache'[Key(frames[p].frm, frames[p].to)]
                   = <<frames[p].now + ttl_seconds, frames'[p].result[1]>>
             /\ \A k \in DOMAIN _cache \ {Key(frames[p].frm, frames[p].to)} :
                   _cache'[k] = _cache[k] ]_vars

\* two calls for one key missed concurrently: the key has been stored twice,
\* the second time by a call that had found it Absent
C11_Witness ==
    \E p \in Procs :
        /\ Refreshed(p)
        /\ frames[p].at_start[1].state = "Absent"
        /\ frames[p].frm # frames[p].to
        /\ cache_origin[Key(frames[p].frm, frames[p].to)].writes = 2

\* the listed code a spelling stands for
Canon(s) == CHOOSE c \in Codes : s \in SpellingsOf(c)

\* C12: codes are case-insensitive at get_rate and upper-case inside: the
\* call works on the listed codes of its arguments however they are spelled,
\* every cache key is made of listed codes, a call whose key (so formed) is
\* Fresh is served the stored entry without a request, whichever spelling
\* stored it, and every hop of a returned path carries listed codes.
C12_SpellingsShareKey ==
    /\ DOMAIN _cache \subseteq {Key(a, b) : a \in Codes, b \in Codes}
    /\ \A p \in Procs :
          frames[p].args # <<>>
          => /\ frames[p].frm = Canon(frames[p].args[1])
             /\ frames[p].to = Canon(frames[p].args[2])
             /\ frames[p].at_start[1].state = "Fresh"
                => /\ frames[p].pc = "done"
                   /\ frames[p].requests = <<>>
                   /\ frames[p].result
                         = <<_cache[Key(Canon(frames[p].args[1]),
                                        Canon(frames[p].args[2]))][2]>>
             /\ Returned(p)
                => \A i \in 1..Len(frames[p].result[1].path) :
                      /\ frames[p].result[1].path[i][1] \in Codes
                      /\ frames[p].result[1].path[i][2] \in Codes

\* get_rate("usd", "eur") is served the entry that get_rate("USD", "EUR") stored
C12_Witness ==
    \E p \in Procs :
        /\ Returned(p) /\ frames[p].requests = <<>>
        /\ frames[p].args = <<"usd", "eur">>
        /\ cache_origin["USD->EUR"].args = <<"USD", "EUR">>
        /\ Len(frames[p].result[1].path) = 2

\* the call p holds the three snapshots of its refresh
HasSnapshots(p) == frames[p].bnc # <<>>

\* the graph get_rate builds from the snapshots of call p
BuiltGraph(p) == _build_graph(frames[p].cbr[1], frames[p].nbu[1], frames[p].bnc[1])

\* the edges of a graph as tuples <<from, to, factor, source>>
EdgesOf(graph) ==
    UNION {{<<a, graph[a][i][1], graph[a][i][2], graph[a][i][3]>> : i \in 1..Len(graph[a])} :
              a \in DOMAIN graph}

\* C13: every graph _build_graph returns is edge-inverse-closed and has no
\* self-loop: with an edge (a, b, f, src) it holds the edge (b, a, 1/f, src),
\* and no edge leads from a code to itself.
C13_InverseClosedNoSelfLoop ==
    \A p \in Procs :
        HasSnapshots(p)
        => \E edges \in {EdgesOf(BuiltGraph(p))} :
              \A e \in edges :
                 /\ e[1] # e[2]
                 /\ <<e[2], e[1], Div(One, e[3]), e[4]>> \in edges

\* a graph built from snapshots taken at different quotations
C13_Witness ==
    \E p \in Procs :
        /\ HasSnapshots(p)
        /\ frames[p].cbr[1].eur_rub = CbrFeed(1).eur_rub
        /\ frames[p].nbu[1].eur_uah = NbuFeed(2).eur_uah
        /\ Cardinality(EdgesOf(BuiltGraph(p))) = 16

\* the order in which the claim has the providers contacted
ProviderOrder == <<"CBR", "NBU", "EURUSDT", "USDTUAH", "USDTUSD">>

\* C14: the requests a call has sent are a prefix of CBR, NBU, EURUSDT,
\* USDTUAH, USDTUSD, each sent once; a call that got past _fetch_all sent all
\* five; a call whose request failed sent nothing after the failed request,
\* holds no snapshot and no result, and ends raised with that request's error.
C14_FixedOrderAbortOnFailure ==
    \A p \in Procs :
        \E k \in 0..Len(ProviderOrder) :
            /\ frames[p].requests = SubSeq(ProviderOrder, 1, k)
            /\ frames[p].pc = "fetch_all" => k = 0
            /\ frames[p].pc = "session_exit" => k = Len(ProviderOrder)
            /\ frames[p].pc = "done" => k \in {0, Len(ProviderOrder)}
            /\ (frames[p].pc = "raised" /\ frames[p].error[1][1] = "FetchError")
               => /\ k >= 1
                  /\ frames[p].error = <<(<<"FetchError", ProviderOrder[k]>>)>>
                  /\ frames[p].result = <<>>
                  /\ frames[p].cbr = <<>> /\ frames[p].nbu = <<>> /\ frames[p].bnc = <<>>
            /\ (frames[p].pc = "raised" /\ frames[p].error[1][1] # "FetchError")
               => k = Len(ProviderOrder)

\* a refresh aborted by its first Binance request, after CBR and NBU answered
C14_Witness ==
    \E p \in Procs :
        /\ frames[p].pc = "raised"
        /\ frames[p].error = <<(<<"FetchError", "EURUSDT">>)>>
        /\ frames[p].requests = <<"CBR", "NBU", "EURUSDT">>

\* the factor of the graph edge a hop <<from, to, source>> names
FactorOf(edges, hop) ==
    (CHOOSE e \in edges : e[1] = hop[1] /\ e[2] = hop[2] /\ e[4] = hop[3])[3]

\* the product of the factors of the first n hops of a path
RECURSIVE PathProduct(_, _, _)
PathProduct(edges, path, n) ==
    IF n = 0 THEN One ELSE Mul(PathProduct(edges, path, n - 1), FactorOf(edges, path[n]))

\* C15: a successful resolution of A to B with A # B returns a path that is
\* a non-empty chain of edges of the graph from A to B, each hop starting
\* where the previous one ends and no currency met twice, and a rate equal to
\* the product of the factors of those edges; the path is empty only for
\* A = B.
C15_PathIsChainRateIsProduct ==
    \A p \in Procs :
        (HasSnapshots(p) /\ Returned(p))
        => \E edges \in {EdgesOf(BuiltGraph(p))} :
           \E path \in {frames[p].result[1].path} :
              IF frames[p].frm = frames[p].to
              THEN path = <<>>
              ELSE /\ Len(path) >= 1
                   /\ path[1][1] = frames[p].frm
                   /\ path[Len(path)][2] = frames[p].to
                   /\ \A i \in 1..Len(path) :
                         \E e \in edges : e[1] = path[i][1] /\ e[2] = path[i][2] /\ e[4] = path[i][3]
                   /\ \A i \in 1..(Len(path) - 1) : path[i][2] = path[i + 1][1]
                   /\ Cardinality({path[i][1] : i \in 1..Len(path)} \cup {frames[p].to})
                         = Len(path) + 1
                   /\ frames[p].result[1].rate = PathProduct(edges, path, Len(path))

\* a returned two-edge chain over edges of two different providers
C15_Witness ==
    \E p \in Procs :
        /\ HasSnapshots(p) /\ Returned(p)
        /\ Len(frames[p].result[1].path) = 2
        /\ frames[p].result[1].path[1][3] # frames[p].result[1].path[2][3]
        /\ frames[p].result[1].rate # One

\* the path the resolver returns for a pair on the scenario graph
ScenarioPath(frm, to) == _find_rate(GraphOf(ScenarioRates), frm, to, 0, <<>>).path

\* C16: the returned route does not depend on the rates (it is the route
\* returned for the scenario rates), and for a two-hop pair its intermediate
\* code is the earliest-inserted neighbour of the source that has an edge to
\* the destination: USD->EUR goes USD->RUB->EUR over CBR, RUB->USDT goes
\* over EUR.
C16_FirstDiscoveredRoute ==
    \A p \in Procs :
        (HasSnapshots(p) /\ Returned(p))
        => \E graph \in {BuiltGraph(p)} :
           \E path \in {frames[p].result[1].path} :
              /\ path = ScenarioPath(frames[p].frm, frames[p].to)
              /\ Len(path) = 2
                 => \E i \in 1..Len(graph[frames[p].frm]) :
                       /\ graph[frames[p].frm][i][1] = path[1][2]
                       /\ \E k \in 1..Len(graph[path[1][2]]) :
                             graph[path[1][2]][k][1] = frames[p].to
                       /\ \A j \in 1..(i - 1) :
                             \A k \in 1..Len(graph[graph[frames[p].frm][j][1]]) :
                                graph[graph[frames[p].frm][j][1]][k][1] # frames[p].to
              /\ (frames[p].frm = "USD" /\ frames[p].to = "EUR")
                 => path = << <<"USD", "RUB", "CBR">>, <<"RUB", "EUR", "CBR">> >>
              /\ (frames[p].frm = "RUB" /\ frames[p].to = "USDT")
                 => path = << <<"RUB", "EUR", "CBR">>, <<"EUR", "USDT", "Binance">> >>

\* RUB->USDT resolved on rates other than the scenario's, where three
\* two-hop routes (over EUR, USD, UAH) give three different rates
C16_Witness ==
    \E p \in Procs :
        /\ HasSnapshots(p) /\ Returned(p)
        /\ frames[p].frm = "RUB" /\ frames[p].to = "USDT"
        /\ frames[p].origin # <<ScenarioRates>>
        /\ \E r \in {frames[p].origin[1]} :
              /\ Div(One, Mul(r.eur_rub, Div(One, r.eur_usdt)))
                    # Div(One, Mul(r.usd_rub, r.usdt_usd))
              /\ Div(One, Mul(r.usd_rub, r.usdt_usd))
                    # Div(Div(r.eur_uah, r.eur_rub), r.usdt_uah)

\* C17 (as claimed): the expiry a successful refresh stores is the TTL added
\* to the time at the store, which is no earlier than the latest reading of
\* the clock, so the entry is Fresh when get_rate returns and a lookup of the
\* same key at that instant is a hit.
C17_FreshAtReturn ==
    [][ \A p \in Procs :
          (frames[p].pc = "session_exit" /\ frames'[p].pc = "done")
          => /\ _cache'[Key(frames[p].frm, frames[p].to)][1] >= clock + ttl_seconds
             /\ cache_hit(_cache', Key(frames[p].frm, frames[p].to), clock) ]_vars

\* C18: no step removes a cache entry; a step that changes the cache is the
\* store of one call get_rate(A, B) and changes nothing but the key "A->B";
\* a call that fails leaves the cache as it was.
C18_WritesOwnKeyOnly ==
    [][ /\ DOMAIN _cache \subseteq DOMAIN _cache'
        /\ _cache' # _cache
           => \E p \in Procs :
                 /\ frames[p].pc = "session_exit" /\ frames'[p].pc = "done"
                 /\ \A k \in DOMAIN _cache' :
                       k # frames[p].frm \o "->" \o frames[p].to
                       => k \in DOMAIN _cache /\ _cache'[k] = _cache[k]
        /\ \A p \in Procs :
              (frames[p].pc # "raised" /\ frames'[p].pc = "raised") => _cache' = _cache ]_vars

\* two keys are cached, the second stored by a call that began when the
\* first was there: the first entry is still what its one refresh stored
C18_Witness ==
    \E q \in Procs :
        /\ Refreshed(q)
        /\ frames[q].frm # frames[q].to
        /\ frames[q].at_start[1].state = "Absent"
        /\ frames[q].at_start[1].reverse # <<>>
        /\ DOMAIN _cache = {Key(frames[q].frm, frames[q].to), Key(frames[q].to, frames[q].frm)}
        /\ cache_origin[Key(frames[q].to, frames[q].frm)].writes = 1
        /\ _cache[Key(frames[q].to, frames[q].frm)][2]
              = cache_origin[Key(frames[q].to, frames[q].frm)].returned

Positive(r) == r[1] > 0 /\ r[2] > 0

\* C19 (as claimed): every rate of a snapshot a fetch function returned is
\* strictly positive, every edge factor of a graph built from the snapshots
\* is positive, and _build_graph does not fail on them.
C19_SnapshotRatesPositive ==
    \A p \in Procs :
        /\ HasSnapshots(p)
           => /\ Positive(frames[p].cbr[1].eur_rub) /\ Positive(frames[p].cbr[1].usd_rub)
              /\ Positive(frames[p].nbu[1].eur_uah) /\ Positive(frames[p].nbu[1].usd_uah)
              /\ Positive(frames[p].bnc[1].eur_usdt) /\ Positive(frames[p].bnc[1].usdt_uah)
              /\ Positive(frames[p].bnc[1].usdt_usd)
        /\ (HasSnapshots(p) /\ Returned(p))
           => \A e \in EdgesOf(BuiltGraph(p)) : Positive(e[3])
        /\ frames[p].pc = "raised" => frames[p].error # <<(<<"ZeroDivisionError">>)>>

\* C20: every get_rate call that goes to its providers finishes: it returns
\* a result or raises, whatever the other caller does (a call served from
\* the cache returns in the step that makes it).
C20_EveryCallFinishes ==
    \A p \in Procs :
        (frames[p].pc \in {"fetch_all", "session_exit"})
        ~> (frames[p].pc \in {"done", "raised"})

\* a call that searched the graph over two edges has returned while the
\* other caller waits for its providers
C20_Witness ==
    \E p, q \in Procs :
        /\ Refreshed(p) /\ Len(frames[p].result[1].path) = 2
        /\ frames[q].pc = "fetch_all"

\* C23: after a refresh whose requests were all answered, a pair of two
\* different supported currencies never ends in the no-path error: the built
\* graph joins every such pair by one or two edges and get_rate returns a
\* path of one or two hops.
C23_SupportedPairsResolve ==
    \A p \in Procs :
        /\ (frames[p].pc = "raised" /\ frames[p].frm \in Supported /\ frames[p].to \in Supported)
           => frames[p].error # <<NoPathError(frames[p].frm, frames[p].to)>>
        /\ (HasSnapshots(p) /\ Returned(p)
              /\ frames[p].frm \in Supported /\ frames[p].to \in Supported
              /\ frames[p].frm # frames[p].to)
           => Len(frames[p].result[1].path) \in {1, 2}
        /\ HasSnapshots(p)
           => \E graph \in {BuiltGraph(p)} :
                 \A a \in Supported, b \in Supported :
                    a # b => HopsFrom(graph, {a}, b, 0, Cardinality(Codes)) \in {1, 2}

\* USDT->RUB, a pair of supported currencies without an edge, has been
\* resolved
C23_Witness ==
    \E p \in Procs :
        /\ HasSnapshots(p) /\ Returned(p)
        /\ frames[p].frm = "USDT" /\ frames[p].to = "RUB"
        /\ Len(frames[p].result[1].path) = 2

\* a path walked backwards: the hops in reverse order, each hop turned round
Backwards(path) ==
    [i \in 1..Len(path) |->
        <<path[Len(path) + 1 - i][2], path[Len(path) + 1 - i][1], path[Len(path) + 1 - i][3]>>]

\* the graph of a refreshing call as the program holds it, in floats
FloatGraph(p) == _build_graph_float(frames[p].cbr[1], frames[p].nbu[1], frames[p].bnc[1])

\* the product of the two rates the program returns for frm->to and to->frm
FloatProduct(p) ==
    FloatMul(_find_rate_float(FloatGraph(p), frames[p].frm, frames[p].to),
             _find_rate_float(FloatGraph(p), frames[p].to, frames[p].frm))

\* |x - 1| <= 2^(4 - SignificandBits)
NearOne(x) ==
    LET diff == IF x[1] >= x[2] THEN x[1] - x[2] ELSE x[2] - x[1]
    IN  diff * Pow2(SignificandBits - 4) <= x[2]

RateFetchFailed(h) == handlers[h].pc = "get_rate" /\ handlers'[h] = NoHandler

\* C21: when get_rate fails inside show_rate, the step leaves the orders
\* table, the conversation data and the admin chat as they are, the
\* conversation stays in waiting_for_calc, and the "show rate" button is
\* still there to be tapped.
C21_FailureLeavesCallerState ==
    [][\A h \in Handlers :
          RateFetchFailed(h)
          => /\ orders' = orders
             /\ fsm_data' = fsm_data
             /\ admin_chat' = admin_chat
             /\ fsm_state = "waiting_for_calc" /\ fsm_state' = "waiting_for_calc"
             /\ CanTap(<<"show_rate", "">>, <<"show_rate", "">>)'
             /\ CalcKeys \subseteq DOMAIN fsm_data']_vars

\* get_rate has failed in this pass through waiting_for_calc, the user has
\* tapped "show rate" again and this time the order was created
C21_Witness ==
    /\ hist.failed
    /\ hist.created = 1
    /\ fsm_state = "enter_contact"
    /\ Len(orders) = 1

\* the state after a state in the order of ExchangeFlow; the cleared
\* conversation comes before choose_give, nothing comes after
\* waiting_for_submit
Successor(st) ==
    IF st = "None" THEN ExchangeFlow[1]
    ELSE LET i == CHOOSE j \in 1..Len(ExchangeFlow) : ExchangeFlow[j] = st
         IN  IF i < Len(ExchangeFlow) THEN ExchangeFlow[i + 1] ELSE st

\* C22 (as claimed): every step of a handler leaves the conversation state
\* as it is, moves it to the state that follows it in ExchangeFlow, or
\* clears the conversation (state None, no data).
C22_LinearStateMachine ==
    [][\/ fsm_state' = fsm_state
       \/ fsm_state' = Successor(fsm_state)
       \/ fsm_state' = "None" /\ fsm_data' = <<>>]_vars

\* the submit handlers in flight
Submitting == {h \in Handlers : handlers[h].pc \in {"submit_db", "submit_notify"}}

\* set_order_calc has recorded a calculation for the order
Calculated(order) ==
    /\ order.rate # <<>>
    /\ order.calculated_give # <<>>
    /\ order.calculated_get # <<>>

\* C25: with the updates handled one at a time, the submit handler runs only
\* for a conversation that has passed a successful show_rate and, after it,
\* an accepted enter_contact since its data was last cleared or changed by
\* another handler; the order it names is the one that show_rate created,
\* with its calculation recorded, and the contact has at least 2
\* characters.  An order is "submitted" only with a recorded calculation and
\* such a contact.
C25_SubmitAfterCalcAndContact ==
    /\ \A h \in Submitting :
          /\ hist.show_rate /\ hist.enter_contact
          /\ handlers[h].loc.order_id = Len(orders)
          /\ Calculated(orders[handlers[h].loc.order_id])
          /\ Len(handlers[h].loc.contact) >= 2
    /\ \A i \in DOMAIN orders :
          orders[i].stage = "submitted"
          => /\ Calculated(orders[i])
             /\ orders[i].contact # <<>>
             /\ Len(orders[i].contact[1]) >= 2

\* the second order of the conversation has been submitted and the
\* conversation cleared, the first one was left at its calculation
C25_Witness ==
    /\ Len(orders) = 2
    /\ orders[1].stage = "calc"
    /\ orders[2].stage = "submitted"
    /\ fsm_state = "None"
    /\ AllIdle

\* the give and get currencies, the amount mode and the amount of record x
\* (locals of submit, or an admin notification) are those of the order
SameOrderFields(x, order) ==
    /\ x.give = order.give_currency
    /\ x.get = order.get_currency
    /\ x.mode = order.amount_mode
    /\ x.amount = order.amount_value

\* C26 (as claimed): under every interleaving of the handlers of one user,
\* whenever submit runs the currencies, the amount mode and the amount it
\* read from the conversation data, and those of the admin notification it
\* sends, are those of the order named by order_id; and no more than one
\* order is created in one pass through waiting_for_calc.
C26_SubmitMatchesOrderOnePerPass ==
    /\ \A h \in Submitting :
          /\ handlers[h].loc.order_id \in DOMAIN orders
          /\ SameOrderFields(handlers[h].loc, orders[handlers[h].loc.order_id])
    /\ \A n \in admin_chat :
          n.kind = "submit"
          => n.order_id \in DOMAIN orders /\ SameOrderFields(n, orders[n.order_id])
    /\ hist.created <= 1
====
